---- MODULE Spec2Model ----
(***************************************************************************)
(* Model of preprocess.py: the corpus preprocessing pipeline               *)
(* (get_sentences_from_document -> clean_sentences -> pickle.dump ->       *)
(* get_vocabulary_count -> reduce_vocab -> update_dataset -> pickle.dump)  *)
(* and its command-line entry point.                                       *)
(*                                                                         *)
(* A Python str is a sequence of Unicode code points (naturals); a list of *)
(* str is a sequence of such sequences; a Counter is a function from       *)
(* tokens to counts; a set of tokens is a set.                             *)
(***************************************************************************)
EXTENDS Integers, Sequences, FiniteSets, TLC

VARIABLES
    input_file,                 \* the file at input_filename: [status, text]
    out_writable,               \* whether open(output_filename + ext, "wb") can succeed
    pkl,                        \* the file <stem>.pkl: [exists, bytes]
    reduced_pkl,                \* the file <stem>.reduced.pkl: [exists, bytes]
    fs_before,                  \* both artifacts as they were before the run
    pc,                         \* the statement the run is at
    err,                        \* the exception that ended the run, "" if none
    steps,                      \* the statements executed so far, in order
    vocab_reduction_threshold,  \* the value bound to the parameter: [isstr, n, s]
    raw_sentences,              \* locals of preprocess_file / arguments of the functions
    cleaned_sentences,
    vocab,
    reduced_vocab,
    new_data

vars == <<input_file, out_writable, pkl, reduced_pkl, fs_before, pc, err, steps,
          vocab_reduction_threshold, raw_sentences, cleaned_sentences, vocab,
          reduced_vocab, new_data>>

-----------------------------------------------------------------------------
(* Bounds of the model *)

MaxFileLen == 4
MaxCleanLen == 4
MaxCorpusLen == 4
MaxCount == 2
MaxThreshold == 2

-----------------------------------------------------------------------------
(* Characters *)

NL == 10
SP == 32

Range(f) == {f[i] : i \in DOMAIN f}

\* str.isspace(): the characters str.split() and str.strip() treat as whitespace
Whitespace ==
    (9..13) \cup (28..32) \cup {133, 160, 5760} \cup (8192..8202)
        \cup {8232, 8233, 8239, 8287, 12288}

\* string.punctuation
Punctuation == (33..47) \cup (58..64) \cup (91..96) \cup (123..126)

\* string.printable: digits, letters, punctuation and " \t\n\r\x0b\x0c"
Printable == (32..126) \cup (9..13)

LowerLetters == 97..122
UpperLetters == 65..90

\* unicodedata canonical decompositions of the Latin-1 capital letters: base, mark
UpperDecomp ==
    (192 :> <<65, 768>>) @@ (193 :> <<65, 769>>) @@ (194 :> <<65, 770>>) @@
    (195 :> <<65, 771>>) @@ (196 :> <<65, 776>>) @@ (197 :> <<65, 778>>) @@
    (199 :> <<67, 807>>) @@
    (200 :> <<69, 768>>) @@ (201 :> <<69, 769>>) @@ (202 :> <<69, 770>>) @@
    (203 :> <<69, 776>>) @@
    (204 :> <<73, 768>>) @@ (205 :> <<73, 769>>) @@ (206 :> <<73, 770>>) @@
    (207 :> <<73, 776>>) @@
    (209 :> <<78, 771>>) @@
    (210 :> <<79, 768>>) @@ (211 :> <<79, 769>>) @@ (212 :> <<79, 770>>) @@
    (213 :> <<79, 771>>) @@ (214 :> <<79, 776>>) @@
    (217 :> <<85, 768>>) @@ (218 :> <<85, 769>>) @@ (219 :> <<85, 770>>) @@
    (220 :> <<85, 776>>) @@
    (221 :> <<89, 769>>)

\* normalize("NFD", c) for one character
Decompose(c) ==
    IF c \in DOMAIN UpperDecomp THEN UpperDecomp[c]
    ELSE IF c = 255 THEN <<121, 776>>
    ELSE IF (c - 32) \in DOMAIN UpperDecomp
         THEN <<UpperDecomp[c - 32][1] + 32, UpperDecomp[c - 32][2]>>
    ELSE <<c>>

RECURSIVE Flatten(_)
Flatten(ss) == IF ss = <<>> THEN <<>> ELSE Head(ss) \o Flatten(Tail(ss))

\* normalize("NFD", line)
normalize_NFD(line) == Flatten([i \in 1..Len(line) |-> Decompose(line[i])])

IsAscii(c) == c < 128

\* line.encode("ascii", "ignore").decode("UTF-8")
encode_ascii_ignore(line) == SelectSeq(line, IsAscii)

\* str.lower() on one (ASCII) character
LowerChar(c) == IF c \in UpperLetters THEN c + 32 ELSE c

\* word.lower()
lower(word) == [i \in 1..Len(word) |-> LowerChar(word[i])]

NotPunctuation(c) == c \notin Punctuation

\* word.translate(table), table = str.maketrans("", "", string.punctuation)
translate(word) == SelectSeq(word, NotPunctuation)

IsPrintable(c) == c \in Printable

\* re_pat.sub("", word), re_pat = [^<string.printable>]
re_pat_sub(word) == SelectSeq(word, IsPrintable)

\* word.isalpha() for a word of ASCII characters
isalpha(word) ==
    /\ word # <<>>
    /\ \A i \in 1..Len(word) : word[i] \in LowerLetters \cup UpperLetters

RECURSIVE SplitFrom(_, _, _, _)
SplitFrom(s, i, cur, acc) ==
    IF i > Len(s)
    THEN IF cur = <<>> THEN acc ELSE Append(acc, cur)
    ELSE IF s[i] \in Whitespace
         THEN SplitFrom(s, i + 1, <<>>, IF cur = <<>> THEN acc ELSE Append(acc, cur))
         ELSE SplitFrom(s, i + 1, Append(cur, s[i]), acc)

\* s.split(): split on runs of whitespace, no empty tokens
split(s) == SplitFrom(s, 1, <<>>, <<>>)

RECURSIVE SplitSepFrom(_, _, _, _, _)
SplitSepFrom(s, sep, i, cur, acc) ==
    IF i > Len(s)
    THEN Append(acc, cur)
    ELSE IF s[i] = sep
         THEN SplitSepFrom(s, sep, i + 1, <<>>, Append(acc, cur))
         ELSE SplitSepFrom(s, sep, i + 1, Append(cur, s[i]), acc)

\* s.split("\n"): split on every newline, empty pieces kept
split_newline(s) == SplitSepFrom(s, NL, 1, <<>>, <<>>)

\* s.strip(): leading and trailing whitespace removed
strip(s) ==
    LET keep == {i \in 1..Len(s) : s[i] \notin Whitespace}
    IN  IF keep = {} THEN <<>>
        ELSE SubSeq(s, CHOOSE i \in keep : \A j \in keep : i <= j,
                       CHOOSE i \in keep : \A j \in keep : i >= j)

RECURSIVE join(_)
\* " ".join(words)
join(words) ==
    IF words = <<>> THEN <<>>
    ELSE IF Len(words) = 1 THEN words[1]
    ELSE words[1] \o <<SP>> \o join(Tail(words))

RECURSIVE UniversalNewlines(_)
\* text mode of open(filename, "r"): "\r\n" and "\r" are read as "\n"
UniversalNewlines(t) ==
    IF t = <<>> THEN <<>>
    ELSE IF t[1] = 13
         THEN <<NL>> \o UniversalNewlines(IF Len(t) > 1 /\ t[2] = NL
                                          THEN Tail(Tail(t)) ELSE Tail(t))
         ELSE <<t[1]>> \o UniversalNewlines(Tail(t))

-----------------------------------------------------------------------------
(* The functions of preprocess.py *)

IsNonEmpty(x) == x # <<>>

\* variant of get_sentences_from_document that leaves the empty lines out
get_sentences_from_document_nonblank(text) ==
    SelectSeq(split_newline(strip(UniversalNewlines(text))), IsNonEmpty)

\* get_sentences_from_document, on the text of a readable file
get_sentences_from_document(text) == split_newline(strip(UniversalNewlines(text)))

\* get_vocabulary_count
get_vocabulary_count(sentences) ==
    LET words == Flatten([i \in 1..Len(sentences) |-> split(sentences[i])])
    IN  [w \in Range(words) |-> Cardinality({i \in 1..Len(words) : words[i] = w})]

\* cnt >= threshold raises TypeError when threshold is a str
reduce_vocab_raises(vocabulary, threshold) ==
    threshold.isstr /\ DOMAIN vocabulary # {}

\* variant of reduce_vocab with an exclusive bound
reduce_vocab_strict(vocabulary, threshold) ==
    {word \in DOMAIN vocabulary : vocabulary[word] > threshold.n}

\* reduce_vocab, when the comparison does not raise
reduce_vocab(vocabulary, threshold) ==
    {word \in DOMAIN vocabulary : vocabulary[word] >= threshold.n}

uup == <<117, 117, 112>>
s_literal == <<115>>

\* lines 36-39: a token of the vocabulary is kept, any other becomes "uup"
Substitute(t, vocabulary) == IF t \in vocabulary THEN t ELSE uup

NotS(word) == word # s_literal

\* variant of line 40 that removes nothing
drop_s_keeps(new_words) == new_words

\* line 40: every word equal to "s" is removed
drop_s(new_words) == SelectSeq(new_words, NotS)

\* lines 34-41: one line of update_dataset
update_line(line, vocabulary) ==
    LET ts == split(line)
    IN  join(drop_s([i \in 1..Len(ts) |-> Substitute(ts[i], vocabulary)]))

\* update_dataset
update_dataset(sentences, vocabulary) ==
    [i \in 1..Len(sentences) |-> update_line(sentences[i], vocabulary)]

IsLetter(c) == c \in LowerLetters \cup UpperLetters

\* variant of line 63 that keeps the letters of every word instead of dropping words
non_numeric_words_partial(printable_words) ==
    SelectSeq([i \in 1..Len(printable_words) |-> SelectSeq(printable_words[i], IsLetter)],
              IsNonEmpty)

\* variant of line 63 that keeps every word
non_numeric_words_keep_all(printable_words) == printable_words

\* line 63: the words that are not purely alphabetic are removed
non_numeric_words(printable_words) == SelectSeq(printable_words, isalpha)

\* lines 58-64: one line of clean_sentences
clean_line(line) ==
    LET folded == encode_ascii_ignore(normalize_NFD(line))
        words == split(folded)
        lowercase_words == [i \in 1..Len(words) |-> lower(words[i])]
        punctuationless_words ==
            [i \in 1..Len(words) |-> translate(lowercase_words[i])]
        printable_words ==
            [i \in 1..Len(words) |-> re_pat_sub(punctuationless_words[i])]
    IN  join(non_numeric_words(printable_words))

\* variant of clean_sentences that leaves out the lines that clean to nothing
clean_sentences_skip_empty(lines) ==
    SelectSeq([i \in 1..Len(lines) |-> clean_line(lines[i])], IsNonEmpty)

\* clean_sentences
clean_sentences(lines) == [i \in 1..Len(lines) |-> clean_line(lines[i])]

\* pickle.dump of a list of str: the item count, then each str length-prefixed
pickle_dump(list) ==
    <<Len(list)>> \o Flatten([i \in 1..Len(list) |-> <<Len(list[i])>> \o list[i]])

-----------------------------------------------------------------------------
(* Inputs *)

\* the texts of at most n characters over an alphabet
Texts(alphabet, n) == UNION {[1..k -> alphabet] : k \in 0..n}

\* "a", "s", " ", "\n", "!", capital E-acute
FileAlphabet == {97, 115, SP, NL, 33, 201}

\* "a", "A", e-acute, "5", "!", " ", NUL, sharp s, "\n"
CleanAlphabet == {97, 65, 233, 53, 33, SP, 0, 223, NL}

\* "a", "s", " ", "\n"
CorpusAlphabet == {97, 115, SP, NL}

\* "a", "s", "b"
VocabWords == {<<97>>, <<115>>, <<98>>}

\* the -vrt values given on the command line: "2" and "x"
ArgvThresholds == {<<50>>, <<120>>}

IntThreshold(n) == [isstr |-> FALSE, n |-> n, s |-> <<>>]
StrThreshold(s) == [isstr |-> TRUE, n |-> 0, s |-> s]

\* vocab_reduction_threshold=4 (line 67) and default=4 (line 82)
DefaultThreshold == 4

Absent == [exists |-> FALSE, bytes |-> <<>>]
\* an artifact left by an earlier run: pickle of ["s s"]
Stale == [exists |-> TRUE, bytes |-> <<1, 3, 115, SP, 115>>]

InputFiles ==
    {[status |-> "missing", text |-> <<>>], [status |-> "unreadable", text |-> <<>>]}
        \cup {[status |-> "ok", text |-> t] : t \in Texts(FileAlphabet, MaxFileLen)}

\* the output files that can be opened for writing, and what they hold before the run
Environments ==
    {[writable |-> {"pkl", "reduced"}, prior |-> Absent],
     [writable |-> {"pkl", "reduced"}, prior |-> Stale],
     [writable |-> {"pkl"}, prior |-> Stale],
     [writable |-> {}, prior |-> Stale]}

NoLocals ==
    /\ vocab_reduction_threshold = IntThreshold(0)
    /\ raw_sentences = <<>>
    /\ cleaned_sentences = <<>>
    /\ vocab = <<>>
    /\ reduced_vocab = {}
    /\ new_data = <<>>

NoFiles ==
    /\ input_file = [status |-> "missing", text |-> <<>>]
    /\ out_writable = {}
    /\ pkl = Absent
    /\ reduced_pkl = Absent
    /\ fs_before = [pkl |-> Absent, reduced |-> Absent]

Init ==
    /\ input_file \in InputFiles
    /\ \E e \in Environments :
        /\ out_writable = e.writable
        /\ pkl = e.prior
        /\ reduced_pkl = e.prior
        /\ fs_before = [pkl |-> e.prior, reduced |-> e.prior]
    /\ pc = "idle"
    /\ err = ""
    /\ steps = <<>>
    /\ NoLocals

-----------------------------------------------------------------------------
(* The run of preprocess_file, one action per statement *)

files == <<input_file, out_writable, pkl, reduced_pkl, fs_before>>
locals == <<raw_sentences, cleaned_sentences, vocab, reduced_vocab, new_data>>

Raise(e) ==
    /\ pc' = "aborted"
    /\ err' = e
    /\ UNCHANGED <<files, steps, vocab_reduction_threshold, locals>>

Step(name, next) ==
    /\ pc' = next
    /\ steps' = Append(steps, name)
    /\ UNCHANGED <<err, input_file, out_writable, fs_before, vocab_reduction_threshold>>

\* lines 78-84 with -vrt given: argparse stores the argument as the str it was given
MainWithFlag(v) ==
    /\ pc = "idle"
    /\ pc' = "L70"
    /\ vocab_reduction_threshold' = StrThreshold(v)
    /\ UNCHANGED <<files, err, steps, locals>>

\* lines 78-84 with -vrt omitted: the int default
MainDefault ==
    /\ pc = "idle"
    /\ pc' = "L70"
    /\ vocab_reduction_threshold' = IntThreshold(DefaultThreshold)
    /\ UNCHANGED <<files, err, steps, locals>>

\* preprocess_file called with an int threshold
PreprocessFileCall(n) ==
    /\ pc = "idle"
    /\ pc' = "L70"
    /\ vocab_reduction_threshold' = IntThreshold(n)
    /\ UNCHANGED <<files, err, steps, locals>>

\* variant of line 70 where <stem>.pkl is opened for writing before the input is read
Load_opens_output_first ==
    /\ pc = "L70"
    /\ pkl' = IF "pkl" \in out_writable THEN [exists |-> TRUE, bytes |-> <<>>] ELSE pkl
    /\ IF input_file.status # "ok"
       THEN /\ pc' = "aborted"
            /\ err' = "OSError"
            /\ UNCHANGED <<input_file, out_writable, reduced_pkl, fs_before, steps,
                           vocab_reduction_threshold, locals>>
       ELSE /\ raw_sentences' = get_sentences_from_document(input_file.text)
            /\ Step("load", "L71")
            /\ UNCHANGED <<reduced_pkl, cleaned_sentences, vocab, reduced_vocab,
                           new_data>>

\* line 70: open() raises when the input is missing or unreadable
Load ==
    /\ pc = "L70"
    /\ IF input_file.status # "ok"
       THEN Raise("OSError")
       ELSE /\ raw_sentences' = get_sentences_from_document(input_file.text)
            /\ Step("load", "L71")
            /\ UNCHANGED <<pkl, reduced_pkl, cleaned_sentences, vocab, reduced_vocab,
                           new_data>>

\* line 71
Clean ==
    /\ pc = "L71"
    /\ cleaned_sentences' = clean_sentences(raw_sentences)
    /\ Step("clean", "L72")
    /\ UNCHANGED <<pkl, reduced_pkl, raw_sentences, vocab, reduced_vocab, new_data>>

\* variant of line 72 that keeps an artifact that already exists
DumpCleaned_skip_existing ==
    /\ pc = "L72"
    /\ IF "pkl" \notin out_writable
       THEN Raise("OSError")
       ELSE /\ pkl' = IF pkl.exists THEN pkl
                      ELSE [exists |-> TRUE, bytes |-> pickle_dump(cleaned_sentences)]
            /\ Step("write_pkl", "L73")
            /\ UNCHANGED <<reduced_pkl, locals>>

\* line 72: open(..., "wb") creates or truncates the file, pickle.dump fills it
DumpCleaned ==
    /\ pc = "L72"
    /\ IF "pkl" \notin out_writable
       THEN Raise("OSError")
       ELSE /\ pkl' = [exists |-> TRUE, bytes |-> pickle_dump(cleaned_sentences)]
            /\ Step("write_pkl", "L73")
            /\ UNCHANGED <<reduced_pkl, locals>>

\* line 73
Count ==
    /\ pc = "L73"
    /\ vocab' = get_vocabulary_count(cleaned_sentences)
    /\ Step("count", "L74")
    /\ UNCHANGED <<pkl, reduced_pkl, raw_sentences, cleaned_sentences, reduced_vocab,
                   new_data>>

\* line 74
Reduce ==
    /\ pc = "L74"
    /\ IF reduce_vocab_raises(vocab, vocab_reduction_threshold)
       THEN Raise("TypeError")
       ELSE /\ reduced_vocab' = reduce_vocab(vocab, vocab_reduction_threshold)
            /\ Step("reduce", "L75")
            /\ UNCHANGED <<pkl, reduced_pkl, raw_sentences, cleaned_sentences, vocab,
                           new_data>>

\* line 75
Update ==
    /\ pc = "L75"
    /\ new_data' = update_dataset(cleaned_sentences, reduced_vocab)
    /\ Step("rewrite", "L76")
    /\ UNCHANGED <<pkl, reduced_pkl, raw_sentences, cleaned_sentences, vocab,
                   reduced_vocab>>

\* line 76
DumpReduced ==
    /\ pc = "L76"
    /\ IF "reduced" \notin out_writable
       THEN Raise("OSError")
       ELSE /\ reduced_pkl' = [exists |-> TRUE, bytes |-> pickle_dump(new_data)]
            /\ Step("write_reduced", "done")
            /\ UNCHANGED <<pkl, locals>>

Next ==
    \/ \E v \in ArgvThresholds : MainWithFlag(v)
    \/ MainDefault
    \/ \E n \in 1..MaxThreshold : PreprocessFileCall(n)
    \/ Load
    \/ Clean
    \/ DumpCleaned
    \/ Count
    \/ Reduce
    \/ Update
    \/ DumpReduced

Spec == Init /\ [][Next]_vars

-----------------------------------------------------------------------------
(* The functions called on their own, on inputs drawn from bounded sets *)

\* clean_sentences(lines), for every list of lines
InitClean ==
    /\ NoFiles
    /\ vocab_reduction_threshold = IntThreshold(0)
    /\ raw_sentences \in {split_newline(t) : t \in Texts(CleanAlphabet, MaxCleanLen)}
    /\ cleaned_sentences = <<>>
    /\ vocab = <<>>
    /\ reduced_vocab = {}
    /\ new_data = <<>>
    /\ pc = "call_clean"
    /\ err = ""
    /\ steps = <<>>

\* cleaned_sentences = clean_sentences(raw_sentences)
CleanSentencesCall ==
    /\ pc = "call_clean"
    /\ cleaned_sentences' = clean_sentences(raw_sentences)
    /\ pc' = "ret_clean"
    /\ UNCHANGED <<files, err, steps, vocab_reduction_threshold, raw_sentences, vocab,
                   reduced_vocab, new_data>>

\* the result is passed to clean_sentences again; new_data keeps the first result
CleanSentencesAgain ==
    /\ pc = "ret_clean"
    /\ new_data' = cleaned_sentences
    /\ cleaned_sentences' = clean_sentences(cleaned_sentences)
    /\ pc' = "ret_reclean"
    /\ UNCHANGED <<files, err, steps, vocab_reduction_threshold, raw_sentences, vocab,
                   reduced_vocab>>

NextClean == CleanSentencesCall \/ CleanSentencesAgain

SpecClean == InitClean /\ [][NextClean]_vars

\* reduce_vocab(vocab, threshold), for every count mapping and int threshold
InitReduce ==
    /\ NoFiles
    /\ vocab \in UNION {[ws -> 0..MaxCount] : ws \in SUBSET VocabWords}
    /\ vocab_reduction_threshold \in {IntThreshold(n) : n \in (0 - 1)..(MaxCount + 1)}
    /\ raw_sentences = <<>>
    /\ cleaned_sentences = <<>>
    /\ reduced_vocab = {}
    /\ new_data = <<>>
    /\ pc = "call_reduce"
    /\ err = ""
    /\ steps = <<>>

\* reduced_vocab = reduce_vocab(vocab, threshold)
ReduceVocabCall ==
    /\ pc = "call_reduce"
    /\ ~reduce_vocab_raises(vocab, vocab_reduction_threshold)
    /\ reduced_vocab' = reduce_vocab(vocab, vocab_reduction_threshold)
    /\ pc' = "ret_reduce"
    /\ UNCHANGED <<files, err, steps, vocab_reduction_threshold, raw_sentences,
                   cleaned_sentences, vocab, new_data>>

NextReduce == ReduceVocabCall

SpecReduce == InitReduce /\ [][NextReduce]_vars

\* update_dataset(sentences, vocab), for every corpus and every vocabulary
InitUpdate ==
    /\ NoFiles
    /\ vocab_reduction_threshold = IntThreshold(0)
    /\ raw_sentences = <<>>
    /\ cleaned_sentences \in
            {split_newline(t) : t \in Texts(CorpusAlphabet, MaxCorpusLen)}
    /\ vocab = <<>>
    /\ reduced_vocab \in SUBSET {<<97>>, s_literal, uup}
    /\ new_data = <<>>
    /\ pc = "call_update"
    /\ err = ""
    /\ steps = <<>>

\* new_data = update_dataset(cleaned_sentences, reduced_vocab)
UpdateDatasetCall ==
    /\ pc = "call_update"
    /\ new_data' = update_dataset(cleaned_sentences, reduced_vocab)
    /\ pc' = "ret_update"
    /\ UNCHANGED <<files, err, steps, vocab_reduction_threshold, raw_sentences,
                   cleaned_sentences, vocab, reduced_vocab>>

NextUpdate == UpdateDatasetCall

SpecUpdate == InitUpdate /\ [][NextUpdate]_vars

-----------------------------------------------------------------------------
(* Properties *)

\* the list of str an artifact holds, read back item by item
RECURSIVE LoadItems(_, _)
LoadItems(bytes, n) ==
    IF n = 0 \/ bytes = <<>> THEN <<>>
    ELSE <<SubSeq(bytes, 2, 1 + bytes[1])>>
            \o LoadItems(SubSeq(bytes, 2 + bytes[1], Len(bytes)), n - 1)

pickle_load(bytes) == IF bytes = <<>> THEN <<>> ELSE LoadItems(Tail(bytes), bytes[1])

Done(step) == \E i \in 1..Len(steps) : steps[i] = step

ClaimedOrder ==
    <<"load", "clean", "write_pkl", "count", "reduce", "rewrite", "write_reduced">>

AllWritable == out_writable = {"pkl", "reduced"}

\* the lines of a text file: the pieces ended by "\n", and a last unended piece if any
FileLines(text) ==
    LET pieces == split_newline(UniversalNewlines(text))
    IN  IF pieces[Len(pieces)] = <<>> THEN SubSeq(pieces, 1, Len(pieces) - 1)
        ELSE pieces

HasText(line) == \E i \in 1..Len(line) : line[i] \notin Whitespace

\* the number of lines before the first line that holds a non-whitespace character
LeadingBlank(ls) ==
    Cardinality({j \in 1..Len(ls) : \A k \in 1..j : ~HasText(ls[k])})

IsNumber(str) == str # <<>> /\ \A i \in 1..Len(str) : str[i] \in 48..57

RECURSIVE ParseInt(_)
ParseInt(str) ==
    IF str = <<>> THEN 0
    ELSE 10 * ParseInt(SubSeq(str, 1, Len(str) - 1)) + (str[Len(str)] - 48)

KeptChar(c) == c \notin Punctuation /\ c \in Printable

\* what is left of a token: punctuation and non-printables removed, lowercased
Residue(t) == lower(SelectSeq(t, KeptChar))

AllLowerLetters(w) == w # <<>> /\ \A i \in 1..Len(w) : w[i] \in LowerLetters

\* the tokens a line is to clean to: the residues that are purely alphabetic
ExpectedTokens(line) ==
    LET ts == split(encode_ascii_ignore(normalize_NFD(line)))
    IN  SelectSeq([i \in 1..Len(ts) |-> Residue(ts[i])], AllLowerLetters)

\* C1: the Cleaned Corpus and the Reduced Corpus have as many lines as the Raw
\* Corpus, line i coming from line i, and a line left with zero tokens is kept
\* as the empty string.
C1_LineCountPreserved ==
    /\ Done("clean") =>
        /\ Len(cleaned_sentences) = Len(raw_sentences)
        /\ \A i \in 1..Len(raw_sentences) :
            /\ cleaned_sentences[i] = clean_sentences(<<raw_sentences[i]>>)[1]
            /\ split(cleaned_sentences[i]) = <<>> => cleaned_sentences[i] = <<>>
    /\ Done("rewrite") =>
        /\ Len(new_data) = Len(raw_sentences)
        /\ \A i \in 1..Len(raw_sentences) :
            /\ new_data[i] = update_dataset(<<cleaned_sentences[i]>>, reduced_vocab)[1]
            /\ split(new_data[i]) = <<>> => new_data[i] = <<>>

\* a finished run of two lines: one cleans to zero tokens, one reduces to zero tokens
C1_Witness ==
    /\ pc = "done"
    /\ Len(raw_sentences) >= 2
    /\ \E i \in 1..Len(raw_sentences) :
        raw_sentences[i] # <<>> /\ cleaned_sentences[i] = <<>>
    /\ \E i \in 1..Len(raw_sentences) :
        cleaned_sentences[i] # <<>> /\ new_data[i] = <<>>

\* C2: every token of the Reduced Corpus is in the Reduced Vocabulary or is
\* "uup", and none is "s", also when "s" is in the Reduced Vocabulary.
C2_ReducedTokens ==
    pc = "ret_update" =>
        \A i \in 1..Len(new_data) :
            LET ts == split(new_data[i])
            IN  \A k \in 1..Len(ts) :
                    /\ ts[k] \in reduced_vocab \/ ts[k] = uup
                    /\ ts[k] # s_literal

\* "s" is in the vocabulary and in a line, and another token was replaced
C2_Witness ==
    /\ pc = "ret_update"
    /\ s_literal \in reduced_vocab
    /\ \E i \in 1..Len(cleaned_sentences) :
        LET ts == split(cleaned_sentences[i])
        IN  /\ \E k \in 1..Len(ts) : ts[k] = s_literal
            /\ \E k \in 1..Len(ts) : ts[k] \notin reduced_vocab
            /\ new_data[i] = uup

C4_CleanIdempotent ==
    pc = "ret_reclean" => cleaned_sentences = new_data

\* the first cleaning changed the input and left a token, and the second one ran
C4_Witness ==
    /\ pc = "ret_reclean"
    /\ new_data # raw_sentences
    /\ \E i \in 1..Len(new_data) : new_data[i] # <<>> /\ new_data[i] # raw_sentences[i]

\* C5: reduce_vocab returns exactly the keys whose count is at least the
\* threshold: a count equal to the threshold is kept, a smaller one is left
\* out, nothing outside the keys is returned.
C5_ReduceVocab ==
    pc = "ret_reduce" =>
        /\ reduced_vocab \subseteq DOMAIN vocab
        /\ \A w \in DOMAIN vocab :
            /\ vocab[w] = vocab_reduction_threshold.n => w \in reduced_vocab
            /\ vocab[w] > vocab_reduction_threshold.n => w \in reduced_vocab
            /\ vocab[w] < vocab_reduction_threshold.n => w \notin reduced_vocab

\* one key at the threshold, one above it and one below it
C5_Witness ==
    /\ pc = "ret_reduce"
    /\ \E w \in DOMAIN vocab : vocab[w] = vocab_reduction_threshold.n
    /\ \E w \in DOMAIN vocab : vocab[w] > vocab_reduction_threshold.n
    /\ \E w \in DOMAIN vocab : vocab[w] < vocab_reduction_threshold.n /\ w \notin reduced_vocab
    /\ reduced_vocab # {}

\* C6: a command-line run with -vrt n, n a number, on a readable input and
\* writable outputs completes, and the reduced artifact is written from the
\* tokens that occur at least n times in the Cleaned Corpus.
C6_CliThresholdRuns ==
    (/\ vocab_reduction_threshold.isstr
     /\ IsNumber(vocab_reduction_threshold.s)
     /\ input_file.status = "ok"
     /\ AllWritable) =>
        /\ pc # "aborted"
        /\ pc = "done" =>
            LET kept == {w \in DOMAIN vocab :
                            vocab[w] >= ParseInt(vocab_reduction_threshold.s)}
            IN  /\ reduced_vocab = kept
                /\ pickle_load(reduced_pkl.bytes) = update_dataset(cleaned_sentences, kept)

\* C7: a command-line run whose threshold is not a number aborts before any
\* processing: no statement of preprocess_file runs and no artifact changes.
C7_BadThresholdAbortsFirst ==
    (vocab_reduction_threshold.isstr /\ ~IsNumber(vocab_reduction_threshold.s)) =>
        /\ steps = <<>>
        /\ pkl = fs_before.pkl
        /\ reduced_pkl = fs_before.reduced

\* C8: when the input is missing or unreadable the run aborts at the load and
\* nothing is written: both artifacts stay as they were before the run.
C8_InputErrorWritesNothing ==
    input_file.status # "ok" =>
        /\ pc \in {"idle", "L70", "aborted"}
        /\ pc = "aborted" => err = "OSError"
        /\ steps = <<>>
        /\ pkl = fs_before.pkl
        /\ reduced_pkl = fs_before.reduced

\* the run has aborted on a missing input, with artifacts of an earlier run in place
C8_Witness ==
    /\ input_file.status = "missing"
    /\ pc = "aborted"
    /\ fs_before.pkl.exists
    /\ pkl = Stale

\* C9 as stated: every empty line of the file, at any position, gives an
\* empty string at the same position of the Cleaned and the Reduced Corpus.
C9_EveryEmptyLineKept ==
    (input_file.status = "ok" /\ Done("rewrite")) =>
        LET ls == FileLines(input_file.text)
        IN  \A j \in 1..Len(ls) :
                ls[j] = <<>> =>
                    /\ j <= Len(cleaned_sentences)
                    /\ cleaned_sentences[j] = <<>>
                    /\ j <= Len(new_data)
                    /\ new_data[j] = <<>>

\* C9 amended: every empty line that lies between two lines holding a
\* non-whitespace character gives an empty string at its position, counted
\* from the first such line, in the Cleaned and the Reduced Corpus.
C9_InnerEmptyLineKept ==
    (input_file.status = "ok" /\ Done("rewrite")) =>
        LET ls == FileLines(input_file.text)
            lead == LeadingBlank(ls)
        IN  \A j \in 1..Len(ls) :
                (/\ ls[j] = <<>>
                 /\ \E a \in 1..(j - 1) : HasText(ls[a])
                 /\ \E b \in (j + 1)..Len(ls) : HasText(ls[b])) =>
                    /\ j - lead \in 1..Len(cleaned_sentences)
                    /\ cleaned_sentences[j - lead] = <<>>
                    /\ j - lead \in 1..Len(new_data)
                    /\ new_data[j - lead] = <<>>

\* a finished run on a file with an empty line between two lines of text
C9_Witness ==
    /\ pc = "done"
    /\ LET ls == FileLines(input_file.text)
       IN  \E j \in 2..(Len(ls) - 1) :
             ls[j] = <<>> /\ HasText(ls[j - 1]) /\ HasText(ls[j + 1])
    /\ Len(cleaned_sentences) = 3
    /\ cleaned_sentences[2] = <<>>
    /\ new_data[2] = <<>>

\* C10: the statements of preprocess_file run in the order load, clean, write
\* <stem>.pkl, count, reduce, rewrite, write <stem>.reduced.pkl; each artifact
\* changes only at its write, which overwrites whatever the file held; after a
\* successful run <stem>.pkl holds the Cleaned Corpus and <stem>.reduced.pkl
\* the Reduced Corpus computed from that Cleaned Corpus.
C10_OrderAndArtifacts ==
    /\ Len(steps) <= Len(ClaimedOrder)
    /\ steps = SubSeq(ClaimedOrder, 1, Len(steps))
    /\ IF Done("write_pkl")
       THEN pkl.exists /\ pickle_load(pkl.bytes) = cleaned_sentences
       ELSE pkl = fs_before.pkl
    /\ IF Done("write_reduced")
       THEN reduced_pkl.exists /\ pickle_load(reduced_pkl.bytes) = new_data
       ELSE reduced_pkl = fs_before.reduced
    /\ pc = "done" =>
        /\ steps = ClaimedOrder
        /\ new_data =
             update_dataset(cleaned_sentences,
                reduce_vocab(get_vocabulary_count(cleaned_sentences),
                             vocab_reduction_threshold))
        /\ cleaned_sentences =
             clean_sentences(get_sentences_from_document(input_file.text))

\* a finished run that replaced the artifacts of an earlier run
C10_Witness ==
    /\ pc = "done"
    /\ fs_before.pkl = Stale
    /\ fs_before.reduced = Stale
    /\ pkl # Stale
    /\ reduced_pkl # Stale
    /\ new_data # cleaned_sentences
    /\ reduced_vocab # {}

====
